---------------------------- MODULE Spec2Model ----------------------------
(***************************************************************************)
(* Change Intelligence Engine of Pathway-Hack (backend/change_intelligence) *)
(*                                                                         *)
(* A source revision is a sequence of lines.  A line is a token that       *)
(* stands for one concrete line of text; the regular expressions and the   *)
(* parser of the code are modelled by what they do on these texts:         *)
(*                                                                         *)
(*   kind      text                                                        *)
(*   "text"    name = 1                     (name is x or y)               *)
(*   "dash"    --x                          (a valid expression)           *)
(*   "plus"    ++x                          (a valid expression)           *)
(*   "def"     def name(args, *args, **kwargs): pass                       *)
(*             the last ndef of args carry "=1"; with ret the header is    *)
(*             def name(args) -> int: pass                                 *)
(*   "class"   class name: pass                                            *)
(*   "import"  import name                                                 *)
(*   "const"   NAME = 1                     (upper-case NAME)              *)
(*   "raise"   raise nameError(x)                                          *)
(*   "doc"     three double quotes, doc, three double quotes               *)
(*   "hint"    # -> int                                                    *)
(*   "bad"     x = )                        (ast.parse: SyntaxError)       *)
(*   "deep"    x+x+...+x, 100000 terms      (ast.parse: RecursionError)    *)
(***************************************************************************)
EXTENDS Integers, Sequences, FiniteSets, TLC

VARIABLES old, new, path, project, op, result, calls,
          running,  \* the calls in flight at the same time, with their locals
          planner,  \* the last call of Planner.plan and the Plan it returned
          memory,   \* a MemoryStore: _memory, its storage file, its last call
          tracker   \* a VersionTracker: latest_hash and its last call

vars == <<old, new, path, project, op, result, calls, running, planner, memory, tracker>>

Engine == <<old, new, path, project, op, result, calls, running>>

Services == <<planner, memory, tracker>>

----------------------------------------------------------------------------
(* Lines and contents *)

Ln(kind, name, args, ndef, va, kw, ret) ==
  [kind |-> kind, name |-> name, args |-> args, ndef |-> ndef, va |-> va, kw |-> kw,
   ret |-> ret]

Plain(kind, name) == Ln(kind, name, <<>>, 0, FALSE, FALSE, FALSE)

Def(name, args, ndef, va, kw) == Ln("def", name, args, ndef, va, kw, FALSE)

\* def name(args) -> int: pass
DefRet(name, args) == Ln("def", name, args, 0, FALSE, FALSE, TRUE)

\* str.splitlines(keepends=True): every line keeps its terminator, so the
\* last line of a content without a final newline differs from the same
\* text followed by a newline.
splitlines(content) ==
  [i \in 1..Len(content.lines) |->
     [text |-> content.lines[i],
      nl   |-> (i < Len(content.lines)) \/ content.nl]]

Content(lines, nl) == [lines |-> lines, nl |-> nl]

----------------------------------------------------------------------------
(* difflib.SequenceMatcher without junk (autojunk needs 200 lines or more) *)

RECURSIVE MatchLen(_, _, _, _, _, _)
MatchLen(a, b, i, j, ahi, bhi) ==
  IF i <= ahi /\ j <= bhi /\ a[i] = b[j]
  THEN 1 + MatchLen(a, b, i + 1, j + 1, ahi, bhi)
  ELSE 0

\* The longest block a[i..i+k-1] = b[j..j+k-1] inside the two windows; of
\* the longest ones the one starting earliest in a, then earliest in b.
find_longest_match(a, b, alo, ahi, blo, bhi) ==
  LET cands == {p \in (alo..ahi) \X (blo..bhi) : a[p[1]] = b[p[2]]}
      len   == [p \in cands |-> MatchLen(a, b, p[1], p[2], ahi, bhi)]
      bestsize == CHOOSE k \in {len[p] : p \in cands} : \A q \in cands : len[q] <= k
      longest  == {p \in cands : len[p] = bestsize}
      besti    == CHOOSE i \in {p[1] : p \in longest} : \A q \in longest : i <= q[1]
      bestj    == CHOOSE j \in {p[2] : p \in {q \in longest : q[1] = besti}} :
                    \A q \in longest : q[1] = besti => j <= q[2]
  IN IF cands = {} THEN [i |-> alo, j |-> blo, k |-> 0]
     ELSE [i |-> besti, j |-> bestj, k |-> bestsize]

RECURSIVE get_matching_blocks(_, _, _, _, _, _)
get_matching_blocks(a, b, alo, ahi, blo, bhi) ==
  IF alo > ahi \/ blo > bhi THEN <<>>
  ELSE LET m == find_longest_match(a, b, alo, ahi, blo, bhi)
       IN IF m.k = 0 THEN <<>>
          ELSE get_matching_blocks(a, b, alo, m.i - 1, blo, m.j - 1)
               \o <<m>>
               \o get_matching_blocks(a, b, m.i + m.k, ahi, m.j + m.k, bhi)

DLine(tag, line) == [tag |-> tag, line |-> line]

Tagged(tag, s, lo, hi) == [n \in 1..(hi - lo + 1) |-> DLine(tag, s[lo + n - 1])]

\* The edit script of get_opcodes, one entry per line: between two matching
\* blocks the lines of a are deleted, then the lines of b inserted.
RECURSIVE EditScript(_, _, _, _, _)
EditScript(a, b, blocks, ai, bj) ==
  IF blocks = <<>>
  THEN Tagged("-", a, ai, Len(a)) \o Tagged("+", b, bj, Len(b))
  ELSE LET m == Head(blocks)
       IN Tagged("-", a, ai, m.i - 1) \o Tagged("+", b, bj, m.j - 1)
          \o Tagged(" ", a, m.i, m.i + m.k - 1)
          \o EditScript(a, b, Tail(blocks), m.i + m.k, m.j + m.k)

get_opcodes(a, b) ==
  EditScript(a, b, get_matching_blocks(a, b, 1, Len(a), 1, Len(b)), 1, 1)


\* mutant: the file headers are written before looking for changes
unified_diff_headers_first(a, b, file_path) ==
  <<DLine("---", Plain("header", file_path)), DLine("+++", Plain("header", file_path))>>

\* difflib.unified_diff(a, b, fromfile, tofile, lineterm='') with n = 3 lines
\* of context: nothing when the sequences are equal, else the two file
\* headers, then for each group of changes a hunk marker and its lines.
ContextN == 3

unified_diff(a, b, file_path) ==
  LET skip == DLine("", Plain("", ""))
      Shown(d) == d # skip
      \* line i is shown when it changes or lies within n lines of a change
      Kept(s, changes) ==
        [i \in 1..Len(s) |->
           i \in changes \/ \E c \in changes : c - i <= ContextN /\ i - c <= ContextN]
      \* slot 2i-1: the hunk marker before line i when a group starts there;
      \* slot 2i: line i when it is shown
      Slots(s, keep) ==
        [n \in 1..(2 * Len(s)) |->
           LET i == (n + 1) \div 2
           IN IF ~keep[i] THEN skip
              ELSE IF n % 2 = 0 THEN s[i]
              ELSE IF i = 1 \/ ~keep[i - 1] THEN DLine("@@", Plain("hunk", ""))
              ELSE skip]
      Hunks(s, changes) ==
        IF changes = {} THEN <<>>
        ELSE <<DLine("---", Plain("header", file_path)),
               DLine("+++", Plain("header", file_path))>>
             \o SelectSeq(Slots(s, Kept(s, changes)), Shown)
      Diff(s) == Hunks(s, {i \in 1..Len(s) : s[i].tag # " "})
  IN Diff(get_opcodes(a, b))

\* str.startswith on a line of the diff.  A diff line is its one-character
\* tag followed by the text of the source line, so "-" followed by a text
\* that begins with "--" starts with "---" just as the file header does.
TextStartsWith2(t, ch) ==
  \/ ch = "-" /\ t.text.kind = "dash"
  \/ ch = "+" /\ t.text.kind = "plus"

startswith(d, prefix) ==
  CASE prefix = "---" -> d.tag = "---" \/ (d.tag = "-" /\ TextStartsWith2(d.line, "-"))
    [] prefix = "+++" -> d.tag = "+++" \/ (d.tag = "+" /\ TextStartsWith2(d.line, "+"))
    [] prefix = "@@"  -> d.tag = "@@"
    [] prefix = "+"   -> d.tag \in {"+", "+++"}
    [] prefix = "-"   -> d.tag \in {"-", "---"}

Min(x, y) == IF x <= y THEN x ELSE y

Take(s, n) == SubSeq(s, 1, Min(n, Len(s)))

\* list(some_set): the iteration order of a set of strings is not fixed by
\* the program (string hashing is seeded per process).
Perms(S) == {p \in [1..Cardinality(S) -> S] : \A i, j \in 1..Cardinality(S) : p[i] = p[j] => i = j}

Samples(S, n) == {Take(p, n) : p \in Perms(S)}

Range(s) == {s[i] : i \in 1..Len(s)}

----------------------------------------------------------------------------
(* change_detector.py *)

\* the names on the lines of one kind, in source order
KindNames(content, kind) ==
  LET IsKind(l) == l.kind = kind
      found == SelectSeq(content.lines, IsKind)
  IN [i \in 1..Len(found) |-> found[i].name]

\* re.findall(r'^\s*def\s+(\w+)\s*\(', content, re.MULTILINE)
CD_extract_functions(content) == KindNames(content, "def")

\* re.findall(r'^\s*class\s+(\w+)', content, re.MULTILINE)
CD_extract_classes(content) == KindNames(content, "class")

\* r'^import\s+([^\s]+)' and r'^from\s+([^\s]+)\s+import'
CD_extract_imports(content) == Range(KindNames(content, "import"))

Clause(c, n, m, names) == [c |-> c, n |-> n, m |-> m, names |-> names]

\* the control-flow keywords searched as substrings of the changed lines
HasLogicKeyword(line) == line.kind = "raise"

OptClause(cond, c) == IF cond THEN <<c>> ELSE <<>>

\* mutant: the net-line-delta clause is appended whatever else was found
generate_reason_stats_always(old_content, new_content, added_lines, removed_lines, context_lines) ==
  LET old_functions == Range(CD_extract_functions(old_content))
      new_functions == Range(CD_extract_functions(new_content))
      added_functions   == new_functions \ old_functions
      removed_functions == old_functions \ new_functions
      old_imports == CD_extract_imports(old_content)
      new_imports == CD_extract_imports(new_content)
      added_imports   == new_imports \ old_imports
      removed_imports == old_imports \ new_imports
      old_classes == Range(CD_extract_classes(old_content))
      new_classes == Range(CD_extract_classes(new_content))
      added_classes   == new_classes \ old_classes
      removed_classes == old_classes \ new_classes
      logic == OptClause(\E i \in 1..Len(context_lines) : HasLogicKeyword(context_lines[i]),
                         Clause("logic", 0, 0, <<>>))
      stats == IF added_lines > removed_lines
               THEN Clause("expanded", added_lines - removed_lines, 0, <<>>)
               ELSE IF removed_lines > added_lines
               THEN Clause("reduced", removed_lines - added_lines, 0, <<>>)
               ELSE Clause("modified", added_lines, removed_lines, <<>>)
  IN { LET reasons ==
             OptClause(added_functions # {},
                       Clause("added_functions", Cardinality(added_functions), 0, af))
          \o OptClause(removed_functions # {},
                       Clause("removed_functions", Cardinality(removed_functions), 0, rf))
          \o OptClause(added_imports # {}, Clause("added_imports", 0, 0, ai))
          \o OptClause(removed_imports # {}, Clause("removed_imports", 0, 0, ri))
          \o OptClause(added_classes # {},
                       Clause("added_classes", Cardinality(added_classes), 0, ac))
          \o OptClause(removed_classes # {},
                       Clause("removed_classes", Cardinality(removed_classes), 0, rc))
           withStats == reasons \o <<stats>>
           all == withStats \o logic
       IN IF all # <<>> THEN all ELSE <<Clause("content_changed", 0, 0, <<>>)>>
       : af \in Samples(added_functions, 3), rf \in Samples(removed_functions, 3),
         ai \in Samples(added_imports, 3),   ri \in Samples(removed_imports, 3),
         ac \in Samples(added_classes, 2),   rc \in Samples(removed_classes, 2) }

\* The reasons _generate_reason can return: one for every order in which
\* the sets of names may be listed.
generate_reason(old_content, new_content, added_lines, removed_lines, context_lines) ==
  LET old_functions == Range(CD_extract_functions(old_content))
      new_functions == Range(CD_extract_functions(new_content))
      added_functions   == new_functions \ old_functions
      removed_functions == old_functions \ new_functions
      old_imports == CD_extract_imports(old_content)
      new_imports == CD_extract_imports(new_content)
      added_imports   == new_imports \ old_imports
      removed_imports == old_imports \ new_imports
      old_classes == Range(CD_extract_classes(old_content))
      new_classes == Range(CD_extract_classes(new_content))
      added_classes   == new_classes \ old_classes
      removed_classes == old_classes \ new_classes
      logic == OptClause(\E i \in 1..Len(context_lines) : HasLogicKeyword(context_lines[i]),
                         Clause("logic", 0, 0, <<>>))
      stats == IF added_lines > removed_lines
               THEN Clause("expanded", added_lines - removed_lines, 0, <<>>)
               ELSE IF removed_lines > added_lines
               THEN Clause("reduced", removed_lines - added_lines, 0, <<>>)
               ELSE Clause("modified", added_lines, removed_lines, <<>>)
  IN { LET reasons ==
             OptClause(added_functions # {},
                       Clause("added_functions", Cardinality(added_functions), 0, af))
          \o OptClause(removed_functions # {},
                       Clause("removed_functions", Cardinality(removed_functions), 0, rf))
          \o OptClause(added_imports # {}, Clause("added_imports", 0, 0, ai))
          \o OptClause(removed_imports # {}, Clause("removed_imports", 0, 0, ri))
          \o OptClause(added_classes # {},
                       Clause("added_classes", Cardinality(added_classes), 0, ac))
          \o OptClause(removed_classes # {},
                       Clause("removed_classes", Cardinality(removed_classes), 0, rc))
           withStats == IF reasons = <<>> THEN <<stats>> ELSE reasons
           all == withStats \o logic
       IN IF all # <<>> THEN all ELSE <<Clause("content_changed", 0, 0, <<>>)>>
       : af \in Samples(added_functions, 3), rf \in Samples(removed_functions, 3),
         ai \in Samples(added_imports, 3),   ri \in Samples(removed_imports, 3),
         ac \in Samples(added_classes, 2),   rc \in Samples(removed_classes, 2) }

\* the sample lines of the summary are cut to 80 characters
MaxDisplay == 80

TextLen(line) == IF line.kind = "deep" THEN 200001 ELSE 20

generate_summary(file_path, added_lines, removed_lines, sample_lines) ==
  [file    |-> file_path,
   counts  |-> OptClause(added_lines > 0 \/ removed_lines > 0,
                         <<added_lines, removed_lines>>),
   samples |-> [i \in 1..Len(Take(sample_lines, 3)) |->
                  [line |-> sample_lines[i], cut |-> TextLen(sample_lines[i]) > MaxDisplay]]]

NoChangeSummary == [file |-> "", counts |-> <<>>, samples |-> <<>>]

CountIf(s, Test(_)) == Len(SelectSeq(s, Test))

\* ChangeDetector.detect_changes: the set of DiffResults it can return
detect_changes(old_content, new_content, file_path) ==
  LET NotHeader(d) == ~(startswith(d, "---") \/ startswith(d, "+++") \/ startswith(d, "@@"))
      IsAdded(d)   == startswith(d, "+") /\ ~startswith(d, "+++")
      IsRemoved(d) == ~IsAdded(d) /\ startswith(d, "-") /\ ~startswith(d, "---")
      IsCounted(d) == IsAdded(d) \/ IsRemoved(d)
      Texts(counted) == [i \in 1..Len(counted) |-> counted[i].line.text]
      Changed(added_count, removed_count, context_lines) ==
        {[changed |-> TRUE, files_changed |-> <<file_path>>,
          reason |-> r,
          change_summary |-> generate_summary(file_path, added_count, removed_count,
                                              Take(context_lines, 5)),
          added_lines |-> added_count, removed_lines |-> removed_count,
          modified_lines |-> removed_count + added_count]
         : r \in generate_reason(old_content, new_content, added_count,
                                 removed_count, context_lines)}
      Counted(diff_lines) ==
        Changed(CountIf(diff_lines, IsAdded), CountIf(diff_lines, IsRemoved),
                Texts(SelectSeq(diff_lines, IsCounted)))
      Result(diff) ==
        IF diff = <<>>
        THEN {[changed |-> FALSE, files_changed |-> <<>>,
               reason |-> <<Clause("no_changes", 0, 0, <<>>)>>,
               change_summary |-> NoChangeSummary,
               added_lines |-> 0, removed_lines |-> 0, modified_lines |-> 0]}
        ELSE Counted(SelectSeq(diff, NotHeader))
  IN Result(unified_diff(splitlines(old_content), splitlines(new_content), file_path))

----------------------------------------------------------------------------
(* breaking_change.py *)

\* ast.parse(content): a syntax error anywhere is reported before the tree
\* is built (a parameter name used twice is not one: only the compiler
\* rejects it); building the tree of the too-deep expression fails with a
\* RecursionError, which is not a SyntaxError.
ast_parse(content) ==
  IF \E i \in 1..Len(content.lines) : content.lines[i].kind = "bad"
  THEN "SyntaxError"
  ELSE IF \E i \in 1..Len(content.lines) : content.lines[i].kind = "deep"
  THEN "RecursionError"
  ELSE "ok"

FunctionSignature(name, args, defaults_count, varargs, kwargs, line_number) ==
  [name |-> name, args |-> args, defaults_count |-> defaults_count,
   varargs |-> varargs, kwargs |-> kwargs, line_number |-> line_number]

\* the FunctionDef nodes of the tree, in ast.walk order (top-level
\* statements in source order): args.args leaves out *args and **kwargs
ast_functions(content) ==
  LET ls == content.lines
      IsDef(i) == ls[i].kind = "def"
      at == SelectSeq([i \in 1..Len(ls) |-> i], IsDef)
  IN [n \in 1..Len(at) |->
        FunctionSignature(ls[at[n]].name, ls[at[n]].args, ls[at[n]].ndef,
                          ls[at[n]].va, ls[at[n]].kw, at[n])]

\* _extract_functions_regex: r'^\s*def\s+(\w+)\s*\((.*?)\)\s*:' on each line
\* does not match a header with a return annotation; the parameter string
\* is split at the commas, so "*args" and "**kwargs" are listed among the
\* parameters (stars removed)
extract_functions_regex(content) ==
  LET ls == content.lines
      IsMatch(i) == ls[i].kind = "def" /\ ~ls[i].ret
      at == SelectSeq([i \in 1..Len(ls) |-> i], IsMatch)
  IN [n \in 1..Len(at) |->
        FunctionSignature(
          ls[at[n]].name,
          ls[at[n]].args \o (IF ls[at[n]].va THEN <<"args">> ELSE <<>>)
                         \o (IF ls[at[n]].kw THEN <<"kwargs">> ELSE <<>>),
          ls[at[n]].ndef, ls[at[n]].va, ls[at[n]].kw, at[n])]

Raised(e) == [exc |-> e]

IsRaised(r) == "exc" \in DOMAIN r

Returned(v) == [val |-> v]

\* mutant: the regex scan is used whenever it finds something
extract_function_signatures_scan_first(content) ==
  LET outcome == ast_parse(content)
  IN IF extract_functions_regex(content) # <<>>
     THEN Returned(extract_functions_regex(content))
     ELSE IF outcome = "ok" THEN Returned(ast_functions(content))
     ELSE IF outcome = "SyntaxError" THEN Returned(<<>>)
     ELSE Raised(outcome)

\* _extract_function_signatures: only SyntaxError is caught
extract_function_signatures(content) ==
  LET outcome == ast_parse(content)
  IN IF outcome = "ok" THEN Returned(ast_functions(content))
     ELSE IF outcome = "SyntaxError" THEN Returned(extract_functions_regex(content))
     ELSE Raised(outcome)

\* _extract_classes: only SyntaxError is caught; both paths give the names
\* of the class lines
extract_classes(content) ==
  LET outcome == ast_parse(content)
  IN IF outcome \in {"ok", "SyntaxError"}
     THEN Returned(Range(KindNames(content, "class")))
     ELSE Raised(outcome)

\* mutant: the defaults are not subtracted from the parameter counts
compare_signatures_no_defaults(old_sig, new_sig) ==
  LET common_params == Range(old_sig.args) \cap Range(new_sig.args)
      k == Cardinality(common_params)
  IN    OptClause(Len(new_sig.args) > Len(old_sig.args),
                  Clause("added_required", Len(new_sig.args) - Len(old_sig.args), 0, <<>>))
     \o OptClause(Len(old_sig.args) > Len(new_sig.args),
                  Clause("removed_params", 0, 0,
                         SubSeq(old_sig.args, Len(new_sig.args) + 1, Len(old_sig.args))))
     \o OptClause(common_params # {} /\ Take(old_sig.args, k) # Take(new_sig.args, k),
                  Clause("order_changed", 0, 0, <<>>))
     \o OptClause(old_sig.varargs /\ ~new_sig.varargs, Clause("removed_varargs", 0, 0, <<>>))
     \o OptClause(old_sig.kwargs /\ ~new_sig.kwargs, Clause("removed_kwargs", 0, 0, <<>>))

\* mutant: the whole parameter lists are compared
compare_signatures_all_names(old_sig, new_sig) ==
  LET old_required == Len(old_sig.args) - old_sig.defaults_count
      new_required == Len(new_sig.args) - new_sig.defaults_count
  IN    OptClause(new_required > old_required,
                  Clause("added_required", new_required - old_required, 0, <<>>))
     \o OptClause(Len(old_sig.args) > Len(new_sig.args),
                  Clause("removed_params", 0, 0,
                         SubSeq(old_sig.args, Len(new_sig.args) + 1, Len(old_sig.args))))
     \o OptClause(Take(old_sig.args, Len(new_sig.args)) # Take(new_sig.args, Len(old_sig.args)),
                  Clause("order_changed", 0, 0, <<>>))
     \o OptClause(old_sig.varargs /\ ~new_sig.varargs, Clause("removed_varargs", 0, 0, <<>>))
     \o OptClause(old_sig.kwargs /\ ~new_sig.kwargs, Clause("removed_kwargs", 0, 0, <<>>))

\* mutant: the leading parameters are named as the removed ones
compare_signatures_removed_head(old_sig, new_sig) ==
  LET old_required == Len(old_sig.args) - old_sig.defaults_count
      new_required == Len(new_sig.args) - new_sig.defaults_count
      common_params == Range(old_sig.args) \cap Range(new_sig.args)
      k == Cardinality(common_params)
  IN    OptClause(new_required > old_required,
                  Clause("added_required", new_required - old_required, 0, <<>>))
     \o OptClause(Len(old_sig.args) > Len(new_sig.args),
                  Clause("removed_params", 0, 0,
                         SubSeq(old_sig.args, 1, Len(old_sig.args) - Len(new_sig.args))))
     \o OptClause(common_params # {} /\ Take(old_sig.args, k) # Take(new_sig.args, k),
                  Clause("order_changed", 0, 0, <<>>))
     \o OptClause(old_sig.varargs /\ ~new_sig.varargs, Clause("removed_varargs", 0, 0, <<>>))
     \o OptClause(old_sig.kwargs /\ ~new_sig.kwargs, Clause("removed_kwargs", 0, 0, <<>>))

\* _compare_signatures: the sub-reasons, empty when compatible
compare_signatures(old_sig, new_sig) ==
  LET old_required == Len(old_sig.args) - old_sig.defaults_count
      new_required == Len(new_sig.args) - new_sig.defaults_count
      common_params == Range(old_sig.args) \cap Range(new_sig.args)
      k == Cardinality(common_params)
  IN    OptClause(new_required > old_required,
                  Clause("added_required", new_required - old_required, 0, <<>>))
     \o OptClause(Len(old_sig.args) > Len(new_sig.args),
                  Clause("removed_params", 0, 0,
                         SubSeq(old_sig.args, Len(new_sig.args) + 1, Len(old_sig.args))))
     \o OptClause(common_params # {} /\ Take(old_sig.args, k) # Take(new_sig.args, k),
                  Clause("order_changed", 0, 0, <<>>))
     \o OptClause(old_sig.varargs /\ ~new_sig.varargs, Clause("removed_varargs", 0, 0, <<>>))
     \o OptClause(old_sig.kwargs /\ ~new_sig.kwargs, Clause("removed_kwargs", 0, 0, <<>>))

\* names as the regular expression [a-zA-Z]\w+ sees them
NameLen(name) == CASE name \in {"f", "K"} -> 1 [] name = "_hid" -> 4 [] OTHER -> 3

FirstIsLetter(name) == name # "_hid"

\* [a-zA-Z]\w+ : a letter followed by at least one more word character
MatchesLetterWord(name) == FirstIsLetter(name) /\ NameLen(name) >= 2

Event(type, name, sub, file, line, severity) ==
  [type |-> type, description |-> [name |-> name, sub |-> sub],
   location |-> [file |-> file, line |-> line], severity |-> severity]

\* mutant: the first signature with that name is kept
LastNamed_first(functions, name) ==
  LET idx == {i \in 1..Len(functions) : functions[i].name = name}
  IN functions[CHOOSE i \in idx : \A j \in idx : i <= j]

\* {f.name: f for f in functions}[name]: the last signature with that name
LastNamed(functions, name) ==
  LET idx == {i \in 1..Len(functions) : functions[i].name = name}
  IN functions[CHOOSE i \in idx : \A j \in idx : j <= i]

\* re.findall(r'^\s*def\s+([a-zA-Z]\w+)\s*\(', content, re.MULTILINE)
public_methods(content) ==
  {n \in Range(KindNames(content, "def")) : MatchesLetterWord(n)}

\* _detect_removed_public_attributes: the event lists it can return, one for
\* every iteration order of the set of removed names
detect_removed_public_attributes(old_content, new_content) ==
  LET removed_methods == public_methods(old_content) \ public_methods(new_content)
  IN {[i \in 1..Len(order) |->
         Event("method_removed", order[i], <<>>, "unknown", 0, "medium")]
      : order \in Perms(removed_methods)}

\* mutant: the difference taken the wrong way round
removed_functions_swapped(old_func_names, new_func_names) == new_func_names \ old_func_names

\* removed_functions = old_func_names - new_func_names
removed_functions(old_func_names, new_func_names) == old_func_names \ new_func_names

function_removed(func_name, file_path) ==
  Event("function_removed", func_name, <<>>, file_path, 0, "high")

class_removed(class_name, file_path) ==
  Event("class_removed", class_name, <<>>, file_path, 0, "high")

\* mutant: "medium" tested before "high"
Severity_medium_first(changes) ==
  IF \E i \in 1..Len(changes) : changes[i].severity = "medium" THEN "medium"
  ELSE IF \E i \in 1..Len(changes) : changes[i].severity = "high" THEN "high"
  ELSE IF changes # <<>> THEN "low"
  ELSE "none"

Severity(changes) ==
  IF \E i \in 1..Len(changes) : changes[i].severity = "high" THEN "high"
  ELSE IF \E i \in 1..Len(changes) : changes[i].severity = "medium" THEN "medium"
  ELSE IF changes # <<>> THEN "low"
  ELSE "none"

\* mutant: only the first description is kept
Details_first_only(changes) ==
  IF changes # <<>> THEN <<changes[1].description>>
  ELSE <<[name |-> "No breaking changes detected", sub |-> <<>>]>>

\* "; ".join of the descriptions, as the sequence of the joined parts
Details(changes) ==
  IF changes # <<>> THEN [i \in 1..Len(changes) |-> changes[i].description]
  ELSE <<[name |-> "No breaking changes detected", sub |-> <<>>]>>

\* BreakingChangeDetector.detect_breaking_changes: the set of its outcomes,
\* a report for every iteration order of the name sets, or the exception
detect_breaking_changes(old_content, new_content, file_path) ==
  LET old_x == extract_function_signatures(old_content)
      new_x == extract_function_signatures(new_content)
      old_c == extract_classes(old_content)
      new_c == extract_classes(new_content)
  IN IF IsRaised(old_x) THEN {old_x}
     ELSE IF IsRaised(new_x) THEN {new_x}
     ELSE IF IsRaised(old_c) THEN {old_c}
     ELSE IF IsRaised(new_c) THEN {new_c}
     ELSE
     LET old_functions == old_x.val
         new_functions == new_x.val
         old_func_names == {old_functions[i].name : i \in 1..Len(old_functions)}
         new_func_names == {new_functions[i].name : i \in 1..Len(new_functions)}
         removed_classes == old_c.val \ new_c.val
         sig_event(func_name) ==
           LET new_sig == LastNamed(new_functions, func_name)
               sig_changes == compare_signatures(LastNamed(old_functions, func_name), new_sig)
           IN OptClause(sig_changes # <<>>,
                        Event("signature_changed", func_name, sig_changes,
                              file_path, new_sig.line_number, "high"))
         RECURSIVE SigEvents(_)
         SigEvents(order) == IF order = <<>> THEN <<>>
                             ELSE sig_event(Head(order)) \o SigEvents(Tail(order))
     IN { LET changes ==
                [i \in 1..Len(rf) |-> function_removed(rf[i], file_path)]
             \o SigEvents(cf)
             \o [i \in 1..Len(rc) |-> class_removed(rc[i], file_path)]
             \o rm
          IN Returned([breaking_change |-> Len(changes) > 0,
                       details |-> Details(changes),
                       severity |-> Severity(changes),
                       changes |-> changes,
                       file |-> file_path])
          : rf \in Perms(removed_functions(old_func_names, new_func_names)),
            cf \in Perms(old_func_names \cap new_func_names),
            rc \in Perms(removed_classes),
            rm \in detect_removed_public_attributes(old_content, new_content) }

----------------------------------------------------------------------------
(* impact_analysis.py *)

\* r'^\s*([A-Z][A-Z0-9_]+)\s*=' : the names of the constant lines
constants(content) == Range(KindNames(content, "const"))

\* _extract_exports
extract_exports(content) ==
  {n \in Range(KindNames(content, "def")) : MatchesLetterWord(n)}
  \cup {n \in Range(KindNames(content, "class")) : MatchesLetterWord(n)}
  \cup constants(content)

\* _get_function_signature_string: re.search with DOTALL returns the text
\* between "(" of the first definition of that name and the first ")" that
\* is followed by ":"; after a header with a return annotation that is the
\* ")" of a later header without one, and the text spans the lines between.
\* "" when there is no match.
get_function_signature_string(content, func_name) ==
  LET ls  == content.lines
      idx == {i \in 1..Len(ls) : ls[i].kind = "def" /\ ls[i].name = func_name}
      closes(i) == {j \in i..Len(ls) : ls[j].kind = "def" /\ ~ls[j].ret}
      ok  == {i \in idx : closes(i) # {}}
  IN IF ok = {} THEN <<>>
     ELSE LET i == CHOOSE m \in ok : \A n \in ok : m <= n
              j == CHOOSE m \in closes(i) : \A n \in closes(i) : m <= n
          IN SubSeq(ls, i, j)

\* _find_changed_exports
find_changed_exports(old_content, new_content, common_exports) ==
  {e \in common_exports :
     /\ e \in Range(CD_extract_functions(old_content))
     /\ e \in Range(CD_extract_functions(new_content))
     /\ get_function_signature_string(old_content, e)
          # get_function_signature_string(new_content, e)}

\* mutant: every other file of the project is reported as a dependent
find_potential_dependents_others(source_file, removed_exports, project_files) ==
  LET Other(file_path) == file_path # source_file
  IN SelectSeq(project_files, Other)

\* _find_potential_dependents: the loop body is a placeholder
find_potential_dependents(source_file, removed_exports, project_files) == <<>>

CountKind(content, kind) == Len(KindNames(content, kind))

\* len(re.findall(r'->\s*\w+', content))
type_hints(content) ==
  Cardinality({i \in 1..Len(content.lines) :
                 content.lines[i].kind = "hint" \/ content.lines[i].ret})

\* mutant: only the docstring count is compared
detect_api_changes_docstrings_only(old_content, new_content) ==
  OptClause(CountKind(old_content, "doc") # CountKind(new_content, "doc"),
            Clause("docstrings", 0, 0, <<>>))

\* _detect_api_changes
detect_api_changes(old_content, new_content) ==
     OptClause(CountKind(old_content, "doc") # CountKind(new_content, "doc"),
               Clause("docstrings", 0, 0, <<>>))
  \o OptClause(type_hints(old_content) # type_hints(new_content),
               Clause("type_hints", 0, 0, <<>>))

\* _detect_config_changes, for every order of the listed names
detect_config_changes(old_content, new_content) ==
  LET removed_constants == constants(old_content) \ constants(new_content)
      added_constants   == constants(new_content) \ constants(old_content)
  IN {   OptClause(removed_constants # {}, Clause("removed_constants", 0, 0, r))
      \o OptClause(added_constants # {}, Clause("added_constants", 0, 0, a))
      : r \in Samples(removed_constants, 3), a \in Samples(added_constants, 3)}

\* _detect_error_handling_changes
detect_error_handling_changes(old_content, new_content) ==
  LET old_raises == CountKind(old_content, "raise")
      new_raises == CountKind(new_content, "raise")
      old_exceptions == Range(KindNames(old_content, "raise"))
      new_exceptions == Range(KindNames(new_content, "raise"))
  IN    OptClause(old_raises # new_raises,
                  IF new_raises > old_raises THEN Clause("more_raises", 0, 0, <<>>)
                  ELSE Clause("fewer_raises", 0, 0, <<>>))
     \o OptClause(old_exceptions # new_exceptions, Clause("exception_types", 0, 0, <<>>))

LargeChange == 100

RemovalFactor == 2

\* mutant: the thresholds are inclusive
size_recommendations_inclusive(change_info) ==
     OptClause(change_info.added_lines >= LargeChange,
               "Large change - consider code review and testing")
  \o OptClause(change_info.removed_lines >= change_info.added_lines * RemovalFactor,
               "Significant code removal - verify functionality is preserved")

\* mutant: the removed lines are compared with the added lines themselves
size_recommendations_no_factor(change_info) ==
     OptClause(change_info.added_lines > LargeChange,
               "Large change - consider code review and testing")
  \o OptClause(change_info.removed_lines > change_info.added_lines,
               "Significant code removal - verify functionality is preserved")

\* the recommendations from the size of the change
size_recommendations(change_info) ==
     OptClause(change_info.added_lines > LargeChange,
               "Large change - consider code review and testing")
  \o OptClause(change_info.removed_lines > change_info.added_lines * RemovalFactor,
               "Significant code removal - verify functionality is preserved")

\* mutant: the default note is added whenever nothing specific was found
default_impact_unconditional(impacts, change_info) == impacts = <<>>

\* "if not impacts and change_info['changed']": the default note applies
default_impact(impacts, change_info) == impacts = <<>> /\ change_info.changed

\* mutant: the recommendations of a breaking change come after the others
analyze_impact_body_breaking_last(change_info, breaking, old_content, new_content, file_path, project_structure) ==
  LET Analysis(breaking_info, removed_exports, changed_exports,
               api_changes, error_changes) ==
        LET potential_dependents ==
              IF removed_exports # {} /\ project_structure # <<>>
              THEN find_potential_dependents(file_path, removed_exports, project_structure)
              ELSE <<>>
            recommendations ==
                 OptClause(changed_exports # {}, "Review call sites for compatibility")
              \o OptClause(error_changes # <<>>, "Review error handling in dependent code")
              \o size_recommendations(change_info)
              \o (IF breaking_info.breaking_change
                  THEN <<"Update dependent code before deploying",
                         "Consider version bump if this is a library">> ELSE <<>>)
            Report(impacts, dflt, affected_users) ==
              { Returned(
                  [impact |-> IF dflt THEN <<Clause("default", 0, 0, <<>>)>>
                              ELSE IF impacts # <<>> THEN impacts
                              ELSE <<Clause("none", 0, 0, <<>>)>>,
                   affected_modules |-> potential_dependents,
                   outdated_docs |-> OptClause(api_changes # <<>>, file_path),
                   affected_users |-> IF affected_users # {} THEN au ELSE <<"Developers">>,
                   recommendations |-> IF recommendations # <<>> THEN recommendations
                                       ELSE <<"Review changes and test">>,
                   file |-> file_path,
                   has_breaking_changes |-> breaking_info.breaking_change])
                : au \in Perms(affected_users) }
            Users(impacts, dflt, config_changes) ==
              Report(impacts, dflt,
                     (IF breaking_info.breaking_change
                      THEN {"Developers using this module/API"} ELSE {})
                \cup (IF removed_exports # {} THEN {"Code that imports these items"} ELSE {})
                \cup (IF changed_exports # {} THEN {"Code calling these functions"} ELSE {})
                \cup (IF api_changes # <<>> THEN {"API consumers"} ELSE {})
                \cup (IF config_changes # <<>>
                      THEN {"Users relying on default configuration"} ELSE {})
                \cup (IF error_changes # <<>>
                      THEN {"Code handling exceptions from this module"} ELSE {})
                \cup (IF dflt THEN {"Developers and QA team"} ELSE {}))
            Impacts(impacts, config_changes) ==
              Users(impacts, default_impact(impacts, change_info), config_changes)
        IN UNION { Impacts(
                        OptClause(breaking_info.breaking_change, Clause("breaking", 0, 0, <<>>))
                     \o OptClause(removed_exports # {},
                                  Clause("removed_exports", Cardinality(removed_exports), 0, re))
                     \o OptClause(potential_dependents # <<>>,
                                  Clause("dependents", Len(potential_dependents), 0, <<>>))
                     \o OptClause(changed_exports # {},
                                  Clause("signature_changes", Cardinality(changed_exports),
                                         0, <<>>))
                     \o api_changes \o config_changes \o error_changes,
                     config_changes)
                   : re \in Samples(removed_exports, 3),
                     config_changes \in detect_config_changes(old_content, new_content) }
      Exports(breaking_info, old_exports, new_exports) ==
        Analysis(breaking_info, old_exports \ new_exports,
                 find_changed_exports(old_content, new_content, old_exports \cap new_exports),
                 detect_api_changes(old_content, new_content),
                 detect_error_handling_changes(old_content, new_content))
  IN IF IsRaised(breaking) THEN {breaking}
     ELSE Exports(breaking.val, extract_exports(old_content), extract_exports(new_content))

\* The body of analyze_impact after its two detector calls returned
\* change_info and breaking (an exception of the second one propagates)
analyze_impact_body(change_info, breaking, old_content, new_content, file_path, project_structure) ==
  LET Analysis(breaking_info, removed_exports, changed_exports,
               api_changes, error_changes) ==
        LET potential_dependents ==
              IF removed_exports # {} /\ project_structure # <<>>
              THEN find_potential_dependents(file_path, removed_exports, project_structure)
              ELSE <<>>
            recommendations ==
                 (IF breaking_info.breaking_change
                  THEN <<"Update dependent code before deploying",
                         "Consider version bump if this is a library">> ELSE <<>>)
              \o OptClause(changed_exports # {}, "Review call sites for compatibility")
              \o OptClause(error_changes # <<>>, "Review error handling in dependent code")
              \o size_recommendations(change_info)
            Report(impacts, dflt, affected_users) ==
              { Returned(
                  [impact |-> IF dflt THEN <<Clause("default", 0, 0, <<>>)>>
                              ELSE IF impacts # <<>> THEN impacts
                              ELSE <<Clause("none", 0, 0, <<>>)>>,
                   affected_modules |-> potential_dependents,
                   outdated_docs |-> OptClause(api_changes # <<>>, file_path),
                   affected_users |-> IF affected_users # {} THEN au ELSE <<"Developers">>,
                   recommendations |-> IF recommendations # <<>> THEN recommendations
                                       ELSE <<"Review changes and test">>,
                   file |-> file_path,
                   has_breaking_changes |-> breaking_info.breaking_change])
                : au \in Perms(affected_users) }
            Users(impacts, dflt, config_changes) ==
              Report(impacts, dflt,
                     (IF breaking_info.breaking_change
                      THEN {"Developers using this module/API"} ELSE {})
                \cup (IF removed_exports # {} THEN {"Code that imports these items"} ELSE {})
                \cup (IF changed_exports # {} THEN {"Code calling these functions"} ELSE {})
                \cup (IF api_changes # <<>> THEN {"API consumers"} ELSE {})
                \cup (IF config_changes # <<>>
                      THEN {"Users relying on default configuration"} ELSE {})
                \cup (IF error_changes # <<>>
                      THEN {"Code handling exceptions from this module"} ELSE {})
                \cup (IF dflt THEN {"Developers and QA team"} ELSE {}))
            Impacts(impacts, config_changes) ==
              Users(impacts, default_impact(impacts, change_info), config_changes)
        IN UNION { Impacts(
                        OptClause(breaking_info.breaking_change, Clause("breaking", 0, 0, <<>>))
                     \o OptClause(removed_exports # {},
                                  Clause("removed_exports", Cardinality(removed_exports), 0, re))
                     \o OptClause(potential_dependents # <<>>,
                                  Clause("dependents", Len(potential_dependents), 0, <<>>))
                     \o OptClause(changed_exports # {},
                                  Clause("signature_changes", Cardinality(changed_exports),
                                         0, <<>>))
                     \o api_changes \o config_changes \o error_changes,
                     config_changes)
                   : re \in Samples(removed_exports, 3),
                     config_changes \in detect_config_changes(old_content, new_content) }
      Exports(breaking_info, old_exports, new_exports) ==
        Analysis(breaking_info, old_exports \ new_exports,
                 find_changed_exports(old_content, new_content, old_exports \cap new_exports),
                 detect_api_changes(old_content, new_content),
                 detect_error_handling_changes(old_content, new_content))
  IN IF IsRaised(breaking) THEN {breaking}
     ELSE Exports(breaking.val, extract_exports(old_content), extract_exports(new_content))

\* ImpactAnalyzer.analyze_impact: the set of its outcomes.  The body reads
\* of the two detector results only fields that do not depend on the order
\* in which names are listed.
analyze_impact(old_content, new_content, file_path, project_structure) ==
  analyze_impact_body(
    CHOOSE c \in detect_changes(old_content, new_content, file_path) : TRUE,
    CHOOSE b \in detect_breaking_changes(old_content, new_content, file_path) : TRUE,
    old_content, new_content, file_path, project_structure)

----------------------------------------------------------------------------
(* __init__.py *)

\* mutant: the removed lines are reported from the added ones
combine_added_twice(change_info, breaking_info, impact_info, file_path) ==
  [changed |-> change_info.changed,
   files_changed |-> change_info.files_changed,
   reason |-> change_info.reason,
   breaking_change |-> breaking_info.breaking_change,
   breaking_details |-> breaking_info.details,
   severity |-> breaking_info.severity,
   impact |-> impact_info.impact,
   affected_modules |-> impact_info.affected_modules,
   outdated_docs |-> impact_info.outdated_docs,
   affected_users |-> impact_info.affected_users,
   recommendations |-> impact_info.recommendations,
   change_summary |-> change_info.change_summary,
   added_lines |-> change_info.added_lines,
   removed_lines |-> change_info.added_lines,
   file |-> file_path]

\* mutant: the file is listed as changed in every record
combine_file_always(change_info, breaking_info, impact_info, file_path) ==
  [changed |-> change_info.changed,
   files_changed |-> <<file_path>>,
   reason |-> change_info.reason,
   breaking_change |-> breaking_info.breaking_change,
   breaking_details |-> breaking_info.details,
   severity |-> breaking_info.severity,
   impact |-> impact_info.impact,
   affected_modules |-> impact_info.affected_modules,
   outdated_docs |-> impact_info.outdated_docs,
   affected_users |-> impact_info.affected_users,
   recommendations |-> impact_info.recommendations,
   change_summary |-> change_info.change_summary,
   added_lines |-> change_info.added_lines,
   removed_lines |-> change_info.removed_lines,
   file |-> file_path]

\* the record analyze_code_changes builds from the three results
combine(change_info, breaking_info, impact_info, file_path) ==
  [changed |-> change_info.changed,
   files_changed |-> change_info.files_changed,
   reason |-> change_info.reason,
   breaking_change |-> breaking_info.breaking_change,
   breaking_details |-> breaking_info.details,
   severity |-> breaking_info.severity,
   impact |-> impact_info.impact,
   affected_modules |-> impact_info.affected_modules,
   outdated_docs |-> impact_info.outdated_docs,
   affected_users |-> impact_info.affected_users,
   recommendations |-> impact_info.recommendations,
   change_summary |-> change_info.change_summary,
   added_lines |-> change_info.added_lines,
   removed_lines |-> change_info.removed_lines,
   file |-> file_path]

\* analyze_code_changes: the set of its outcomes
analyze_code_changes(old_content, new_content, file_path, project_structure) ==
  { IF IsRaised(b) THEN b
    ELSE IF IsRaised(i) THEN i
    ELSE Returned(combine(c, b.val, i.val, file_path))
    : c \in detect_changes(old_content, new_content, file_path),
      b \in detect_breaking_changes(old_content, new_content, file_path),
      i \in analyze_impact(old_content, new_content, file_path, project_structure) }

----------------------------------------------------------------------------
(* agent/planner.py *)

\* Plan(strategy, tools_needed, reasoning, confidence_threshold); the
\* threshold in hundredths
Plan(strategy, tools_needed, reasoning, confidence_threshold) ==
  [strategy |-> strategy, tools_needed |-> tools_needed, reasoning |-> reasoning,
   confidence_threshold |-> confidence_threshold]

\* str.lower() on the words of a query
lower(word) ==
  CASE word = "Summarize" -> "summarize"
    [] word = "Changed"   -> "changed"
    [] OTHER              -> word

\* the keywords of the planner that are substrings of a lower-case word
KeywordsIn(word) ==
  CASE word = "summary"   -> {"summary"}
    [] word = "summarize" -> {"summarize"}
    [] word = "changed"   -> {"change", "changed"}
    [] word = "breaking"  -> {"break", "breaking"}
    [] word = "impact"    -> {"impact"}
    [] OTHER              -> {}

\* keyword in query.lower()
InLower(keyword, query) == \E i \in 1..Len(query) : keyword \in KeywordsIn(lower(query[i]))

\* the truth value of a str used as a condition
Truthy(s) == s # ""

\* metadata.get(key, default)
get(metadata, key, default) == IF key \in DOMAIN metadata THEN metadata[key] ELSE default

\* mutant: both keywords are searched in the query
plan_both_searched(query, context, metadata) ==
  LET quality == get(metadata, "context_quality", "limited")
  IN IF quality = "limited"
     THEN Plan("uncertain", <<"express_uncertainty">>, "Context limited", 40)
     ELSE IF InLower("summary", query) \/ InLower("summarize", query)
     THEN Plan("summarize", <<"extract_key_points">>, "Summary requested", 70)
     ELSE IF InLower("change", query) \/ InLower("changed", query)
             \/ InLower("difference", query)
     THEN Plan("explain_change",
               <<"extract_changes", "analyze_code_changes", "detect_breaking_changes",
                 "analyze_impact">>, "Change explanation with intelligence", 75)
     ELSE IF InLower("breaking", query) \/ InLower("break", query)
     THEN Plan("detect_breaking", <<"detect_breaking_changes", "analyze_impact">>,
               "Breaking change detection", 75)
     ELSE IF InLower("impact", query) \/ InLower("affect", query)
             \/ InLower("downstream", query)
     THEN Plan("impact_analysis", <<"analyze_impact">>, "Impact analysis", 75)
     ELSE Plan("direct", <<>>, "Direct answer", 80)

\* Planner.plan; the second test is  "summary" or ("summarize" in query.lower())
plan(query, context, metadata) ==
  LET quality == get(metadata, "context_quality", "limited")
  IN IF quality = "limited"
     THEN Plan("uncertain", <<"express_uncertainty">>, "Context limited", 40)
     ELSE IF Truthy("summary") \/ InLower("summarize", query)
     THEN Plan("summarize", <<"extract_key_points">>, "Summary requested", 70)
     ELSE IF InLower("change", query) \/ InLower("changed", query)
             \/ InLower("difference", query)
     THEN Plan("explain_change",
               <<"extract_changes", "analyze_code_changes", "detect_breaking_changes",
                 "analyze_impact">>, "Change explanation with intelligence", 75)
     ELSE IF InLower("breaking", query) \/ InLower("break", query)
     THEN Plan("detect_breaking", <<"detect_breaking_changes", "analyze_impact">>,
               "Breaking change detection", 75)
     ELSE IF InLower("impact", query) \/ InLower("affect", query)
             \/ InLower("downstream", query)
     THEN Plan("impact_analysis", <<"analyze_impact">>, "Impact analysis", 75)
     ELSE Plan("direct", <<>>, "Direct answer", 80)

NoneValue == [none |-> TRUE]

\* no call of the planner yet
NoPlan == [query |-> <<>>, metadata |-> <<>>, plan |-> NoneValue]

----------------------------------------------------------------------------
(* memory/memory_store.py *)

Categories == {"questions", "explanations", "design_decisions", "change_contexts"}

\* the structure of an empty memory (the metadata timestamps are left out)
EmptyMemory == [c \in Categories |-> <<>>]

Prefix(category) ==
  CASE category = "questions"        -> "q"
    [] category = "explanations"     -> "e"
    [] category = "design_decisions" -> "d"
    [] category = "change_contexts"  -> "c"

\* f"{prefix}_{n}"
FormatId(prefix, n) == [prefix |-> prefix, number |-> n]

\* mutant: the identifiers are numbered from one
new_id_from_one(m, category) == FormatId(Prefix(category), Len(m[category]) + 1)

\* question_id = f"q_{len(self._memory['questions'])}", and the same in
\* the other three store operations
new_id(m, category) == FormatId(Prefix(category), Len(m[category]))

\* self._memory[category].append(entry)
append(m, category, text) ==
  [m EXCEPT ![category] = Append(@, [id |-> new_id(m, category), text |-> text])]

\* json.dump of the memory into the storage file
json_dump(m) == [json |-> m]

\* a storage file cut short by a failed write
Corrupt == [truncated |-> TRUE]

\* _load_memory: the structure in the file, the empty structure when the
\* file does not hold valid JSON
load_memory(file) == IF file = Corrupt THEN EmptyMemory ELSE file.json

\* the call before the first one
NoCall == [op |-> "__init__", returned |-> NoneValue]

\* MemoryStore(): no storage file yet, so the empty structure is written
\* and loaded
NewStore == [_memory |-> EmptyMemory, file |-> json_dump(EmptyMemory), last |-> NoCall]

----------------------------------------------------------------------------
(* pathway_engine/state/version_tracker.py, pathway_engine/indexing/embeddings.py *)

\* a text is a sequence of characters; "surrogate" stands for a lone
\* surrogate code point, which UTF-8 cannot encode
IsEncodable(ch) == ch # "surrogate"

\* text.encode("utf-8", errors="ignore")
encode(text) == SelectSeq(text, IsEncodable)

\* hashlib.sha256(...).hexdigest(): different byte strings, different digests
sha256(bytes) == [hexdigest |-> bytes]

content_hash(text) == sha256(encode(text))

\* VersionTracker(): latest_hash = None
NewTracker ==
  [latest_hash |-> NoneValue, op |-> "__init__", content |-> <<>>, changed |-> FALSE,
   version |-> NoneValue]

\* mutant: the hash of the first content is kept
update_keeps_first(t, content) ==
  LET h == content_hash(content)
      changed == h # t.latest_hash
  IN [t EXCEPT !.latest_hash = IF t.latest_hash = NoneValue THEN h ELSE @,
               !.op = "update", !.content = content, !.changed = changed]

\* VersionTracker.update
update(t, content) ==
  LET h == content_hash(content)
      changed == h # t.latest_hash
  IN [t EXCEPT !.latest_hash = h, !.op = "update", !.content = content,
               !.changed = changed]

\* VersionTracker.get_version
get_version(t) == [t EXCEPT !.op = "get_version", !.version = t.latest_hash]

\* the planner, the memory store and the version tracker before any call
ServicesIdle ==
  /\ planner = NoPlan
  /\ memory = NewStore
  /\ tracker = NewTracker

----------------------------------------------------------------------------
(* The calls of the four public operations on one pair of revisions *)

NoCalls == [detect_changes |-> 0, detect_breaking_changes |-> 0, analyze_impact |-> 0]

NoResult == [none |-> TRUE]

Inputs == <<old, new, path, project>>

\* detect_changes(old_content, new_content, file_path)
DetectChanges ==
  /\ op = "idle"
  /\ \E r \in detect_changes(old, new, path) : result' = Returned(r)
  /\ op' = "detect_changes"
  /\ calls' = [calls EXCEPT !.detect_changes = @ + 1]
  /\ UNCHANGED <<Inputs, running, Services>>

\* detect_breaking_changes(old_content, new_content, file_path)
DetectBreakingChanges ==
  /\ op = "idle"
  /\ \E r \in detect_breaking_changes(old, new, path) : result' = r
  /\ op' = "detect_breaking_changes"
  /\ calls' = [calls EXCEPT !.detect_breaking_changes = @ + 1]
  /\ UNCHANGED <<Inputs, running, Services>>

\* analyze_impact(old_content, new_content, file_path, project_structure):
\* it runs its own change detector and breaking-change detector
AnalyzeImpact ==
  /\ op = "idle"
  /\ \E r \in analyze_impact(old, new, path, project) : result' = r
  /\ op' = "analyze_impact"
  /\ calls' = [calls EXCEPT !.analyze_impact = @ + 1,
                            !.detect_changes = @ + 1,
                            !.detect_breaking_changes = @ + 1]
  /\ UNCHANGED <<Inputs, running, Services>>

\* analyze_code_changes(old_content, new_content, file_path, project_structure):
\* the two detectors, then analyze_impact unless the breaking-change
\* detector raised
AnalyzeCodeChanges ==
  /\ op = "idle"
  /\ \E r \in analyze_code_changes(old, new, path, project) :
       /\ result' = r
       /\ calls' = IF \E b \in detect_breaking_changes(old, new, path) : IsRaised(b)
                   THEN [calls EXCEPT !.detect_changes = @ + 1,
                                      !.detect_breaking_changes = @ + 1]
                   ELSE [calls EXCEPT !.analyze_impact = @ + 1,
                                      !.detect_changes = @ + 2,
                                      !.detect_breaking_changes = @ + 2]
  /\ op' = "analyze_code_changes"
  /\ UNCHANGED <<Inputs, running, Services>>

----------------------------------------------------------------------------
(* Input spaces *)

SeqsUpTo(S, n) == UNION {[1..k -> S] : k \in 0..n}

\* the empty string has no line and no final newline
Contents(L, n, NL) ==
  {Content(ls, nl) : ls \in SeqsUpTo(L, n) \ {<<>>}, nl \in NL} \cup {Content(<<>>, FALSE)}

Start(O, N, P, PS) ==
  /\ old \in O
  /\ new \in N
  /\ path \in P
  /\ project \in PS
  /\ op = "idle"
  /\ result = NoResult
  /\ calls = NoCalls
  /\ running = <<>>
  /\ ServicesIdle

MaxLines == 2

\* revisions of lines that the diff treats differently
DiffLines == {Plain("text", "x"), Plain("text", "y"), Plain("dash", "x"),
              Plain("plus", "x"), Def("f", <<"a">>, 0, FALSE, FALSE)}

InitDiff ==
  Start(Contents(DiffLines, MaxLines, BOOLEAN), Contents(DiffLines, MaxLines, BOOLEAN),
        {"mod.py"}, {<<>>})

NextDiff == DetectChanges

SpecDiff == InitDiff /\ [][NextDiff]_vars

\* revisions with every construct _generate_reason looks for
ReasonLines == {Def("f", <<"a">>, 0, FALSE, FALSE), Plain("import", "os"),
                Plain("class", "Box"), Plain("raise", "ValueError"), Plain("text", "x")}

InitReason ==
  Start(Contents(ReasonLines, MaxLines, {TRUE}), Contents(ReasonLines, MaxLines, {TRUE}),
        {"mod.py"}, {<<>>})

NextReason == DetectChanges

SpecReason == InitReason /\ [][NextReason]_vars

\* revisions with docstring blocks and return annotations
ApiLines == {Plain("doc", "d"), Plain("hint", "h"), Def("run", <<"a">>, 0, FALSE, FALSE),
             DefRet("run", <<"a">>), Plain("text", "x")}

InitApi ==
  Start(Contents(ApiLines, MaxLines, {TRUE}), Contents(ApiLines, MaxLines, {TRUE}),
        {"mod.py"}, {<<>>})

NextApi == AnalyzeImpact

SpecApi == InitApi /\ [][NextApi]_vars

\* revisions for the four operations: functions, a header the fallback
\* scan does not match, a class, and the two ways the parser fails
CodeLines == {Def("f", <<"a">>, 0, FALSE, FALSE), Def("run", <<"a">>, 0, FALSE, FALSE),
              DefRet("run", <<"a">>), Plain("class", "Box"),
              Plain("bad", "x"), Plain("deep", "x")}

Init ==
  Start(Contents(CodeLines, MaxLines, {TRUE}), Contents(CodeLines, MaxLines, {TRUE}),
        {"mod.py"}, {<<>>})

Next == DetectChanges \/ DetectBreakingChanges \/ AnalyzeImpact \/ AnalyzeCodeChanges

Spec == Init /\ [][Next]_vars

\* one function f in each revision, with every signature of up to MaxParams
\* parameters; a trailing "bad" line sends the extraction to the regex scan
MaxParams == 2

ParamNames == {"a", "b", "c"}

IsInjective(s) == \A i, j \in 1..Len(s) : s[i] = s[j] => i = j

Sigs == {Def("f", args, nd, va, kw) :
           args \in {q \in SeqsUpTo(ParamNames, MaxParams) : IsInjective(q)},
           nd \in 0..MaxParams, va \in BOOLEAN, kw \in BOOLEAN}

SigContents == {Content(<<d>> \o tail, TRUE) :
                  d \in {x \in Sigs : x.ndef <= Len(x.args)},
                  tail \in {<<>>, <<Plain("bad", "x")>>}}

InitSig == Start(SigContents, SigContents, {"mod.py"}, {<<>>})

NextSig == DetectBreakingChanges

SpecSig == InitSig /\ [][NextSig]_vars

\* insertions around the size LargeChange: a short revision followed by a
\* run of equal lines
Margin == 1

Filler(line, n) == [i \in 1..n |-> line]

LargeLines == {Plain("text", "x"), Plain("plus", "x"),
               Def("run", <<"a">>, 0, FALSE, FALSE), Plain("raise", "ValueError")}

LargeContents ==
  {Content(c.lines \o Filler(line, n), TRUE) :
     c \in Contents(LargeLines, 1, {TRUE}),
     line \in {Plain("text", "x"), Plain("plus", "x")},
     n \in (LargeChange - Margin)..(LargeChange + Margin)}

InitLarge ==
  Start(Contents(LargeLines, 1, {TRUE}),
        Contents(LargeLines, 1, {TRUE}) \cup LargeContents, {"mod.py"}, {<<>>})

NextLarge == AnalyzeImpact

SpecLarge == InitLarge /\ [][NextLarge]_vars

\* revisions that define a function name more than once, with different
\* parameters, parseable or not
DupLines == {Def("f", <<"a">>, 0, FALSE, FALSE), Def("f", <<"a", "b">>, 0, FALSE, FALSE),
             Def("f", <<"b">>, 0, TRUE, FALSE), Def("run", <<"a">>, 0, FALSE, FALSE),
             Plain("bad", "x")}

InitDup ==
  Start(Contents(DupLines, MaxLines, {TRUE}), Contents(DupLines, MaxLines, {TRUE}),
        {"mod.py"}, {<<>>})

NextDup == DetectBreakingChanges

SpecDup == InitDup /\ [][NextDup]_vars

\* calls that differ in the list of project files (None and the empty
\* list are both the empty sequence: the code only tests its truth)
MaxFiles == 2

ProjectFiles == SeqsUpTo({"mod.py", "dep.py"}, MaxFiles)

ProjectLines == {Def("run", <<"a">>, 0, FALSE, FALSE), Plain("class", "Box"),
                 Plain("text", "x")}

InitProject ==
  Start(Contents(ProjectLines, 1, {TRUE}), Contents(ProjectLines, 1, {TRUE}),
        {"mod.py"}, ProjectFiles)

NextProject == AnalyzeImpact \/ AnalyzeCodeChanges

SpecProject == InitProject /\ [][NextProject]_vars

----------------------------------------------------------------------------
(* Several calls at once *)

\* Calls in flight at the same time (threads of one process, or worker
\* processes).  ChangeDetector and BreakingChangeDetector have no field, an
\* ImpactAnalyzer holds one of each and never rebinds them, and the modules
\* have no global: all a call reads or writes is its arguments and locals.
MaxCalls == 2

Calls == 1..MaxCalls

Entries == {"analyze_code_changes", "analyze_impact"}

NewCall(entry, old_content, new_content, file_path, project_structure) ==
  [entry |-> entry, old |-> old_content, new |-> new_content, path |-> file_path,
   project |-> project_structure,
   pc |-> IF entry = "analyze_code_changes" THEN "detect_changes"
          ELSE "impact_detect_changes",
   change_info |-> NoResult, breaking_info |-> NoResult,
   impact_change_info |-> NoResult, impact_breaking_info |-> NoResult,
   impact_info |-> NoResult, ret |-> NoResult]

\* mutant: the value is kept where every call in flight reads it
assign_shared(run, c, local, value) ==
  [k \in DOMAIN run |-> [run[k] EXCEPT ![local] = value]]

\* an assignment to a local variable of call c
assign(run, c, local, value) == [run EXCEPT ![c][local] = value]

Goto(run, c, pc) == [run EXCEPT ![c].pc = pc]

Single == <<old, new, path, project, op, result, calls, Services>>

\* change_info = change_detector.detect_changes(old_content, new_content, file_path)
CallDetectChanges(c) ==
  /\ running[c].pc = "detect_changes"
  /\ \E r \in detect_changes(running[c].old, running[c].new, running[c].path) :
       running' = Goto(assign(running, c, "change_info", r), c, "detect_breaking_changes")
  /\ UNCHANGED Single

\* breaking_info = breaking_detector.detect_breaking_changes(...); an
\* exception ends the call
CallDetectBreakingChanges(c) ==
  /\ running[c].pc = "detect_breaking_changes"
  /\ \E r \in detect_breaking_changes(running[c].old, running[c].new, running[c].path) :
       running' = IF IsRaised(r)
                  THEN Goto(assign(running, c, "ret", r), c, "done")
                  ELSE Goto(assign(running, c, "breaking_info", r.val), c,
                            "impact_detect_changes")
  /\ UNCHANGED Single

\* analyze_impact: change_info = self.change_detector.detect_changes(...)
ImpactDetectChanges(c) ==
  /\ running[c].pc = "impact_detect_changes"
  /\ \E r \in detect_changes(running[c].old, running[c].new, running[c].path) :
       running' = Goto(assign(running, c, "impact_change_info", r), c,
                       "impact_detect_breaking_changes")
  /\ UNCHANGED Single

\* analyze_impact: breaking_info = self.breaking_detector.detect_breaking_changes(...)
ImpactDetectBreakingChanges(c) ==
  /\ running[c].pc = "impact_detect_breaking_changes"
  /\ \E r \in detect_breaking_changes(running[c].old, running[c].new, running[c].path) :
       running' = IF IsRaised(r)
                  THEN Goto(assign(running, c, "ret", r), c, "done")
                  ELSE Goto(assign(running, c, "impact_breaking_info", r), c, "impact_body")
  /\ UNCHANGED Single

\* the rest of analyze_impact; it returns to its caller
ImpactBody(c) ==
  /\ running[c].pc = "impact_body"
  /\ \E i \in analyze_impact_body(running[c].impact_change_info,
                                  running[c].impact_breaking_info,
                                  running[c].old, running[c].new, running[c].path,
                                  running[c].project) :
       running' = IF running[c].entry = "analyze_impact"
                  THEN Goto(assign(running, c, "ret", i), c, "done")
                  ELSE Goto(assign(running, c, "impact_info", i.val), c, "combine")
  /\ UNCHANGED Single

\* analyze_code_changes returns the combined record
Combine(c) ==
  /\ running[c].pc = "combine"
  /\ running' = Goto(assign(running, c, "ret",
                            Returned(combine(running[c].change_info,
                                             running[c].breaking_info,
                                             running[c].impact_info,
                                             running[c].path))),
                     c, "done")
  /\ UNCHANGED Single

\* revisions whose results differ and list several names, and one on which
\* the parser fails
ConcOld == {Content(<<Def("run", <<"a">>, 0, FALSE, FALSE), Plain("class", "Box")>>, TRUE),
            Content(<<Def("f", <<"a">>, 0, FALSE, FALSE)>>, TRUE)}

ConcNew == {Content(<<>>, FALSE), Content(<<Plain("deep", "x")>>, TRUE)}

InitConc ==
  /\ old = Content(<<>>, FALSE)
  /\ new = Content(<<>>, FALSE)
  /\ path = "mod.py"
  /\ project = <<>>
  /\ op = "idle"
  /\ result = NoResult
  /\ calls = NoCalls
  /\ running \in [Calls -> {NewCall(e, o, n, "mod.py", <<>>) :
                             e \in Entries, o \in ConcOld, n \in ConcNew}]
  /\ ServicesIdle

NextConc ==
  \E c \in Calls :
    \/ CallDetectChanges(c)
    \/ CallDetectBreakingChanges(c)
    \/ ImpactDetectChanges(c)
    \/ ImpactDetectBreakingChanges(c)
    \/ ImpactBody(c)
    \/ Combine(c)

SpecConc == InitConc /\ [][NextConc]_vars

----------------------------------------------------------------------------
(* The planner, the memory store and the version tracker *)

\* the engine at rest, the three services just constructed
Fresh == Start({Content(<<>>, FALSE)}, {Content(<<>>, FALSE)}, {"mod.py"}, {<<>>})

MaxWords == 2

QueryWords == {"summary", "Summarize", "Changed", "breaking", "impact", "hello"}

Queries == SeqsUpTo(QueryWords, MaxWords)

\* metadata without the key, and with each kind of value for it
Metadatas ==
  {<<>>} \cup {[k \in {"context_quality"} |-> q] : q \in {"limited", "good", "rich", ""}}

\* Planner().plan(query, context, metadata)
PlannerPlan ==
  /\ \E query \in Queries, metadata \in Metadatas :
       planner' = [query |-> query, metadata |-> metadata,
                   plan |-> plan(query, "context", metadata)]
  /\ UNCHANGED <<Engine, memory, tracker>>

NextPlanner == PlannerPlan

SpecPlanner == Fresh /\ [][NextPlanner]_vars

MaxEntries == 2

MemoryTexts == {"note"}

\* one of the four store operations: the entry is appended, then the memory
\* is saved; a save that fails raises, and leaves the file as it was or cut
\* short
Store(category, name) ==
  /\ Len(memory._memory[category]) < MaxEntries
  /\ \E text \in MemoryTexts, saved \in BOOLEAN, left \in {memory.file, Corrupt} :
       LET m == append(memory._memory, category, text)
       IN memory' = [_memory |-> m,
                     file |-> IF saved THEN json_dump(m) ELSE left,
                     last |-> [op |-> name,
                               returned |-> IF saved
                                            THEN Returned(new_id(memory._memory, category))
                                            ELSE Raised("OSError")]]
  /\ UNCHANGED <<Engine, planner, tracker>>

StoreQuestion == Store("questions", "store_question")

StoreExplanation == Store("explanations", "store_explanation")

StoreDesignDecision == Store("design_decisions", "store_design_decision")

StoreChangeContext == Store("change_contexts", "store_change_context")

\* clear_memory
ClearMemory ==
  /\ \E saved \in BOOLEAN, left \in {memory.file, Corrupt} :
       memory' = [_memory |-> EmptyMemory,
                  file |-> IF saved THEN json_dump(EmptyMemory) ELSE left,
                  last |-> [op |-> "clear_memory",
                            returned |-> IF saved THEN Returned(NoneValue)
                                         ELSE Raised("OSError")]]
  /\ UNCHANGED <<Engine, planner, tracker>>

\* MemoryStore(storage_path) on the existing storage file
Reopen ==
  /\ memory' = [_memory |-> load_memory(memory.file), file |-> memory.file, last |-> NoCall]
  /\ UNCHANGED <<Engine, planner, tracker>>

NextMemory ==
  \/ StoreQuestion
  \/ StoreExplanation
  \/ StoreDesignDecision
  \/ StoreChangeContext
  \/ ClearMemory
  \/ Reopen

SpecMemory == Fresh /\ [][NextMemory]_vars

MaxText == 3

Characters == {"a", "b", "surrogate"}

Texts == SeqsUpTo(Characters, MaxText)

\* tracker.update(content)
Update ==
  /\ \E content \in Texts : tracker' = update(tracker, content)
  /\ UNCHANGED <<Engine, planner, memory>>

\* tracker.get_version()
GetVersion ==
  /\ tracker' = get_version(tracker)
  /\ UNCHANGED <<Engine, planner, memory>>

NextTracker == Update \/ GetVersion

SpecTracker == Fresh /\ [][NextTracker]_vars

----------------------------------------------------------------------------
(* Properties *)

Finished(o) == op = o /\ ~IsRaised(result)

\* the DiffResult of the revisions (its counts do not depend on the order
\* in which names are listed)
TheDiff == CHOOSE c \in detect_changes(old, new, path) : TRUE

\* the edit script of the two revisions
TheScript == get_opcodes(splitlines(old), splitlines(new))

TagCount(tag) == Cardinality({i \in 1..Len(TheScript) : TheScript[i].tag = tag})

\* C1: a DiffResult has changed = true exactly when it counts an added or
\* a removed line.
C1_ChangedIffCounts ==
  Finished("detect_changes") =>
    (result.val.changed <=> (result.val.added_lines > 0 \/ result.val.removed_lines > 0))

\* C2: detect_changes on two identical contents returns changed = false, no
\* added and no removed line, no changed file and the reason "No changes
\* detected".
C2_IdenticalUnchanged ==
  Finished("detect_changes") /\ old = new =>
    /\ result.val.changed = FALSE
    /\ result.val.added_lines = 0
    /\ result.val.removed_lines = 0
    /\ result.val.files_changed = <<>>
    /\ result.val.reason = <<Clause("no_changes", 0, 0, <<>>)>>

C2_Witness ==
  /\ Finished("detect_changes")
  /\ old = new
  /\ \E i \in 1..Len(old.lines) : old.lines[i].kind = "dash"
  /\ result.val.changed = FALSE

\* C3: added_lines is the number of inserted lines of the line diff and
\* removed_lines the number of deleted lines, whatever their text; when the
\* revisions share no line these are the line counts of new and of old.
C3_CountsEveryChangedLine ==
  Finished("detect_changes") =>
    /\ result.val.added_lines = TagCount("+")
    /\ result.val.removed_lines = TagCount("-")
    /\ Range(splitlines(old)) \cap Range(splitlines(new)) = {} =>
         /\ result.val.added_lines = Len(new.lines)
         /\ result.val.removed_lines = Len(old.lines)

\* C4: no public operation lets an exception escape, whatever failure the
\* parser reports for the input.
C4_NoExceptionEscapes == op # "idle" => ~IsRaised(result)

SevOrd(sev) == CASE sev = "none" -> 0 [] sev = "low" -> 1 [] sev = "medium" -> 2
                 [] sev = "high" -> 3

\* C5: the severity of a report is the greatest severity of its events, it
\* is "none" exactly when there is no event, and breaking_change is true
\* exactly when there is an event.
C5_SeverityIsMax ==
  Finished("detect_breaking_changes") =>
    LET r == result.val
        ords == {SevOrd(r.changes[i].severity) : i \in 1..Len(r.changes)}
    IN /\ \A o \in ords : o <= SevOrd(r.severity)
       /\ ords # {} => SevOrd(r.severity) \in ords
       /\ r.severity = "none" <=> r.changes = <<>>
       /\ r.breaking_change <=> r.changes # <<>>

C5_Witness ==
  /\ Finished("detect_breaking_changes")
  /\ result.val.severity = "high"
  /\ \E i \in 1..Len(result.val.changes) : result.val.changes[i].severity = "medium"

OldSigs == extract_function_signatures(old).val

NewSigs == extract_function_signatures(new).val

SigNames(sigs) == {sigs[i].name : i \in 1..Len(sigs)}

\* C6: every function name extracted from old and not from new gets a
\* function_removed event of severity high, the report is then breaking
\* with severity high, and no function_removed event names a function
\* that new still has.
C6_FunctionRemoved ==
  Finished("detect_breaking_changes") =>
    LET r == result.val
        gone == SigNames(OldSigs) \ SigNames(NewSigs)
    IN /\ \A f \in gone : \E i \in 1..Len(r.changes) :
            /\ r.changes[i].type = "function_removed"
            /\ r.changes[i].description.name = f
            /\ r.changes[i].severity = "high"
       /\ gone # {} => r.breaking_change /\ r.severity = "high"
       /\ \A i \in 1..Len(r.changes) :
            r.changes[i].type = "function_removed" =>
              r.changes[i].description.name \notin SigNames(NewSigs)

C6_Witness ==
  /\ Finished("detect_breaking_changes")
  /\ SigNames(OldSigs) \ SigNames(NewSigs) # {}
  /\ SigNames(NewSigs) # {}
  /\ \E i \in 1..Len(result.val.changes) : result.val.changes[i].type = "function_removed"

Required(sig) == Len(sig.args) - sig.defaults_count

SigEventsOf(f) ==
  {i \in 1..Len(result.val.changes) :
     /\ result.val.changes[i].type = "signature_changed"
     /\ result.val.changes[i].description.name = f}

\* C7: when a function is in both revisions and its number of required
\* parameters grows by n >= 1, there is exactly one signature_changed event
\* for it, the event says "added n required parameter(s)", and the severity
\* of the report is high.
C7_RequiredAdded ==
  Finished("detect_breaking_changes") =>
    \A f \in SigNames(OldSigs) \cap SigNames(NewSigs) :
      LET n == Required(LastNamed(NewSigs, f)) - Required(LastNamed(OldSigs, f))
      IN n >= 1 =>
           /\ Cardinality(SigEventsOf(f)) = 1
           /\ \A i \in SigEventsOf(f) :
                \E j \in 1..Len(result.val.changes[i].description.sub) :
                  result.val.changes[i].description.sub[j]
                    = Clause("added_required", n, 0, <<>>)
           /\ result.val.severity = "high"

C7_Witness ==
  /\ Finished("detect_breaking_changes")
  /\ "f" \in SigNames(OldSigs) \cap SigNames(NewSigs)
  /\ Required(LastNamed(NewSigs, "f")) - Required(LastNamed(OldSigs, "f")) = 2
  /\ LastNamed(OldSigs, "f").defaults_count = 1
  /\ Cardinality(SigEventsOf("f")) = 1

\* the extracted signature n is o with the parameter at position p renamed
RenamedAt(o, n, p) ==
  /\ Len(o.args) = Len(n.args)
  /\ o.defaults_count = n.defaults_count
  /\ o.varargs = n.varargs /\ o.kwargs = n.kwargs
  /\ p \in 1..Len(o.args)
  /\ o.args[p] # n.args[p]
  /\ n.args[p] \notin Range(o.args)
  /\ \A q \in 1..Len(o.args) : q # p => o.args[q] = n.args[q]

\* C8 as stated: renaming one parameter in place, at any position, gives
\* no signature_changed event for the function.
C8_RenameInPlaceSilent ==
  Finished("detect_breaking_changes") =>
    \A f \in SigNames(OldSigs) \cap SigNames(NewSigs) :
      LET o == LastNamed(OldSigs, f)
          n == LastNamed(NewSigs, f)
      IN (\E p \in 1..Len(o.args) : RenamedAt(o, n, p)) => SigEventsOf(f) = {}

\* C8 amended: renaming the last extracted parameter in place gives no
\* signature_changed event; renaming any other parameter of a function
\* whose parameter names are distinct gives exactly one, which says
\* "parameter order changed" and nothing else.
C8_RenameLastSilent ==
  Finished("detect_breaking_changes") =>
    \A f \in SigNames(OldSigs) \cap SigNames(NewSigs) :
      LET o == LastNamed(OldSigs, f)
          n == LastNamed(NewSigs, f)
      IN \A p \in 1..Len(o.args) :
           RenamedAt(o, n, p) =>
             /\ p = Len(o.args) => SigEventsOf(f) = {}
             /\ p < Len(o.args) /\ IsInjective(o.args) =>
                  /\ Cardinality(SigEventsOf(f)) = 1
                  /\ \A i \in SigEventsOf(f) :
                       result.val.changes[i].description.sub
                         = <<Clause("order_changed", 0, 0, <<>>)>>

C8_Witness ==
  /\ Finished("detect_breaking_changes")
  /\ "f" \in SigNames(OldSigs) \cap SigNames(NewSigs)
  /\ Len(LastNamed(OldSigs, "f").args) >= 2
  /\ RenamedAt(LastNamed(OldSigs, "f"), LastNamed(NewSigs, "f"),
               Len(LastNamed(OldSigs, "f").args))
  /\ SigEventsOf("f") = {}

\* C9: analyze_code_changes on two identical contents returns changed =
\* false, breaking_change = false, severity "none" and the single impact
\* note "No significant impact detected".
C9_IdenticalNoImpact ==
  op = "analyze_code_changes" /\ old = new =>
    /\ ~IsRaised(result)
    /\ result.val.changed = FALSE
    /\ result.val.breaking_change = FALSE
    /\ result.val.severity = "none"
    /\ result.val.impact = <<Clause("none", 0, 0, <<>>)>>

LargeChangeNote == "Large change - consider code review and testing"

\* C10: the recommendations of analyze_impact contain the "Large change"
\* recommendation exactly when the diff has more than 100 added lines,
\* whichever other rules fire.
C10_LargeChange ==
  Finished("analyze_impact") =>
    (LargeChangeNote \in Range(result.val.recommendations) <=> TheDiff.added_lines > 100)

C10_Witness ==
  /\ Finished("analyze_impact")
  /\ TheDiff.added_lines = 101
  /\ result.val.has_breaking_changes
  /\ LargeChangeNote \in Range(result.val.recommendations)
  /\ Len(result.val.recommendations) >= 3

FifteenKeys ==
  {"changed", "files_changed", "reason", "breaking_change", "breaking_details",
   "severity", "impact", "affected_modules", "outdated_docs", "affected_users",
   "recommendations", "change_summary", "added_lines", "removed_lines", "file"}

C12_EachInvokedOnce ==
  op = "analyze_code_changes" =>
    calls = [detect_changes |-> 1, detect_breaking_changes |-> 1, analyze_impact |-> 1]

Done(c) == running[c].pc = "done"

SameArguments(c, d) ==
  /\ running[c].entry = running[d].entry
  /\ running[c].old = running[d].old
  /\ running[c].new = running[d].new
  /\ running[c].path = running[d].path
  /\ running[c].project = running[d].project

\* C13: two invocations of analyze_code_changes with the same arguments
\* return identical records, the order of the listed events, names and
\* affected users included.
C13_SameArgumentsSameRecord ==
  \A c, d \in Calls :
    /\ Done(c) /\ Done(d)
    /\ running[c].entry = "analyze_code_changes"
    /\ SameArguments(c, d)
    => running[c].ret = running[d].ret

\* what a call returns when nothing else runs
Alone(call) ==
  IF call.entry = "analyze_code_changes"
  THEN analyze_code_changes(call.old, call.new, call.path, call.project)
  ELSE analyze_impact(call.old, call.new, call.path, call.project)

\* C15: whatever the interleaving of the calls in flight, each one returns
\* (or raises) what it can return when it runs alone.
C15_CallsIndependent ==
  \A c \in Calls : Done(c) => running[c].ret \in Alone(running[c])

C15_Witness ==
  \E c, d \in Calls :
    /\ c # d
    /\ Done(c) /\ Done(d)
    /\ running[c].entry = "analyze_code_changes"
    /\ running[d].entry = "analyze_impact"
    /\ running[c].old # running[d].old
    /\ ~IsRaised(running[c].ret) /\ ~IsRaised(running[d].ret)

\* C14: the list of project files is inert: calls of analyze_impact or of
\* analyze_code_changes that differ only in it have the same outcomes, and
\* affected_modules is always the empty list.
C14_ProjectFilesInert ==
  op \in {"analyze_impact", "analyze_code_changes"} =>
    /\ ~IsRaised(result) => result.val.affected_modules = <<>>
    /\ \A ps \in ProjectFiles :
         IF op = "analyze_impact"
         THEN result \in analyze_impact(old, new, path, ps)
         ELSE result \in analyze_code_changes(old, new, path, ps)

C14_Witness ==
  /\ Finished("analyze_impact")
  /\ \E i \in 1..Len(project) : project[i] # path
  /\ \E i \in 1..Len(result.val.impact) : result.val.impact[i].c = "removed_exports"
  /\ result.val.affected_modules = <<>>

Descriptions(changes) == [i \in 1..Len(changes) |-> changes[i].description]

\* C16 as stated: in every report, details is the "; "-join of the
\* descriptions of its events in event order, the empty event list
\* included.
C16_DetailsJoin ==
  Finished("detect_breaking_changes") =>
    result.val.details = Descriptions(result.val.changes)

\* C16 amended: details is the "; "-join of the descriptions of the events
\* in event order when there is an event, and the sentence "No breaking
\* changes detected" when there is none.
C16_DetailsJoinOrNone ==
  Finished("detect_breaking_changes") =>
    /\ result.val.changes # <<>> =>
         result.val.details = Descriptions(result.val.changes)
    /\ result.val.changes = <<>> =>
         result.val.details = <<[name |-> "No breaking changes detected", sub |-> <<>>]>>

C16_Witness ==
  /\ Finished("detect_breaking_changes")
  /\ Len(result.val.changes) >= 3
  /\ result.val.details = Descriptions(result.val.changes)

StartsWithUnderscore(name) == ~FirstIsLetter(name)

MethodRemovedOf(name) ==
  {i \in 1..Len(result.val.changes) :
     /\ result.val.changes[i].type = "method_removed"
     /\ result.val.changes[i].description.name = name}

\* C17: every function name of old that new lacks and that does not start
\* with an underscore, whatever its length, gets a method_removed event of
\* severity medium besides its function_removed event; and every
\* method_removed event names such a removed function.
C17_MethodRemoved ==
  Finished("detect_breaking_changes") =>
    LET r == result.val
        gone == SigNames(OldSigs) \ SigNames(NewSigs)
    IN /\ \A f \in gone :
            ~StartsWithUnderscore(f) =>
              /\ MethodRemovedOf(f) # {}
              /\ \A i \in MethodRemovedOf(f) : r.changes[i].severity = "medium"
              /\ \E i \in 1..Len(r.changes) :
                   /\ r.changes[i].type = "function_removed"
                   /\ r.changes[i].description.name = f
       /\ \A i \in 1..Len(r.changes) :
            r.changes[i].type = "method_removed" =>
              r.changes[i].description.name \in gone

\* the notes of rules 1 to 7 of analyze_impact
RuleNotes ==
  {"breaking", "removed_exports", "dependents", "signature_changes", "docstrings",
   "type_hints", "removed_constants", "added_constants", "more_raises", "fewer_raises",
   "exception_types"}

DefaultImpact == <<Clause("default", 0, 0, <<>>)>>

NoImpact == <<Clause("none", 0, 0, <<>>)>>

\* C18: the impact list of analyze_impact is never empty; when no rule
\* produced a note and the diff reports a change it is exactly the default
\* note and affected_users contains "Developers and QA team"; it is the
\* single note "No significant impact detected" exactly when old = new.
C18_ImpactNeverEmpty ==
  Finished("analyze_impact") =>
    LET r == result.val
        noted == \E i \in 1..Len(r.impact) : r.impact[i].c \in RuleNotes
    IN /\ r.impact # <<>>
       /\ noted \/ r.impact \in {DefaultImpact, NoImpact}
       /\ ~noted /\ TheDiff.changed =>
            /\ r.impact = DefaultImpact
            /\ "Developers and QA team" \in Range(r.affected_users)
       /\ r.impact = NoImpact <=> old = new

C18_Witness ==
  /\ Finished("analyze_impact")
  /\ old # new
  /\ result.val.impact = DefaultImpact
  /\ "Developers and QA team" \in Range(result.val.affected_users)

\* the five sub-reasons of a signature change, on the extracted signatures
SubReasons(o, n) ==
  LET k == Cardinality(Range(o.args) \cap Range(n.args))
  IN <<Required(n) > Required(o),
       Len(o.args) > Len(n.args),
       k > 0 /\ Take(o.args, k) # Take(n.args, k),
       o.varargs /\ ~n.varargs,
       o.kwargs /\ ~n.kwargs>>

\* the declaration n is the declaration o with parameters appended that all
\* have defaults, and possibly *args or **kwargs added
BackwardCompatible(o, n) ==
  /\ Len(n.args) >= Len(o.args)
  /\ SubSeq(n.args, 1, Len(o.args)) = o.args
  /\ n.ndef = o.ndef + (Len(n.args) - Len(o.args))
  /\ o.va => n.va
  /\ o.kw => n.kw

DeclarationsOf(content, f) ==
  {i \in 1..Len(content.lines) : content.lines[i].kind = "def" /\ content.lines[i].name = f}

\* C19, first part: a function in both revisions gets a signature_changed
\* event exactly when one of the five sub-reasons holds, and never more than
\* one.
C19_EventIffSubReason ==
  Finished("detect_breaking_changes") =>
    \A f \in SigNames(OldSigs) \cap SigNames(NewSigs) :
      LET s == SubReasons(LastNamed(OldSigs, f), LastNamed(NewSigs, f))
      IN /\ Cardinality(SigEventsOf(f)) <= 1
         /\ SigEventsOf(f) # {} <=> \E j \in 1..5 : s[j]

\* C19: a function in both revisions gets a signature_changed event exactly
\* when one of the five sub-reasons holds, and never more than one; a
\* backward-compatible change of its declaration (parameters with defaults
\* appended, *args or **kwargs added) gives none.
C19_SignatureChanged ==
  /\ C19_EventIffSubReason
  /\ Finished("detect_breaking_changes") =>
       \A f \in SigNames(OldSigs) \cap SigNames(NewSigs) :
         \A i \in DeclarationsOf(old, f), j \in DeclarationsOf(new, f) :
           /\ DeclarationsOf(old, f) = {i} /\ DeclarationsOf(new, f) = {j}
           /\ BackwardCompatible(old.lines[i], new.lines[j])
           => SigEventsOf(f) = {}

\* the place of a sub-reason in the fixed order
SubReasonRank(c) ==
  CASE c = "added_required"  -> 1
    [] c = "removed_params"  -> 2
    [] c = "order_changed"   -> 3
    [] c = "removed_varargs" -> 4
    [] c = "removed_kwargs"  -> 5

LastOf(sigs, f) ==
  sigs[CHOOSE i \in 1..Len(sigs) :
         /\ sigs[i].name = f
         /\ \A j \in 1..Len(sigs) : sigs[j].name = f => j <= i]

FirstOf(sigs, f) ==
  sigs[CHOOSE i \in 1..Len(sigs) :
         /\ sigs[i].name = f
         /\ \A j \in 1..Len(sigs) : sigs[j].name = f => i <= j]

FunctionRemovedOf(f) ==
  {i \in 1..Len(result.val.changes) :
     /\ result.val.changes[i].type = "function_removed"
     /\ result.val.changes[i].description.name = f}

\* C21: when a revision defines a function name more than once, the
\* signature compared for that name is the one extracted last; the name
\* gets at most one function_removed and at most one signature_changed
\* event.
C21_LastDefinitionWins ==
  Finished("detect_breaking_changes") =>
    /\ \A f \in SigNames(OldSigs) : Cardinality(FunctionRemovedOf(f)) <= 1
    /\ \A f \in SigNames(OldSigs) \cap SigNames(NewSigs) :
         LET o == LastOf(OldSigs, f)
             n == LastOf(NewSigs, f)
             s == SubReasons(o, n)
         IN /\ Cardinality(SigEventsOf(f)) <= 1
            /\ SigEventsOf(f) # {} <=> \E j \in 1..5 : s[j]
            /\ \A e \in SigEventsOf(f) :
                 LET sub == result.val.changes[e].description.sub
                 IN /\ {SubReasonRank(sub[i].c) : i \in 1..Len(sub)} = {j \in 1..5 : s[j]}
                    /\ result.val.changes[e].location.line = n.line_number

\* the first and the last definition of f disagree in both revisions, and
\* comparing the first ones would have reported nothing
C21_Witness ==
  /\ Finished("detect_breaking_changes")
  /\ "f" \in SigNames(OldSigs) \cap SigNames(NewSigs)
  /\ FirstOf(OldSigs, "f").args # LastOf(OldSigs, "f").args
  /\ FirstOf(NewSigs, "f").args # LastOf(NewSigs, "f").args
  /\ \A j \in 1..5 : ~SubReasons(FirstOf(OldSigs, "f"), FirstOf(NewSigs, "f"))[j]
  /\ SigEventsOf("f") # {}

\* the lines of a content that hold a function definition, in source order
DefLinesOf(content) ==
  LET IsDefAt(i) == content.lines[i].kind = "def"
  IN SelectSeq([i \in 1..Len(content.lines) |-> i], IsDefAt)

\* the function definitions of the syntax tree
TreeDefinitions(content) ==
  LET at == DefLinesOf(content)
  IN [n \in 1..Len(at) |->
        [name |-> content.lines[at[n]].name, args |-> content.lines[at[n]].args,
         defaults_count |-> content.lines[at[n]].ndef,
         varargs |-> content.lines[at[n]].va, kwargs |-> content.lines[at[n]].kw,
         line_number |-> at[n]]]

\* the headers of the shape "def name(params):" found line by line, with
\* the parameter string split at its commas
HeaderScan(content) ==
  LET Plainly(i) == ~content.lines[i].ret
      at == SelectSeq(DefLinesOf(content), Plainly)
  IN [n \in 1..Len(at) |->
        [name |-> content.lines[at[n]].name,
         args |-> content.lines[at[n]].args
                  \o (IF content.lines[at[n]].va THEN <<"args">> ELSE <<>>)
                  \o (IF content.lines[at[n]].kw THEN <<"kwargs">> ELSE <<>>),
         defaults_count |-> content.lines[at[n]].ndef,
         varargs |-> content.lines[at[n]].va, kwargs |-> content.lines[at[n]].kw,
         line_number |-> at[n]]]

HasKind(content, kind) == \E i \in 1..Len(content.lines) : content.lines[i].kind = kind

ExtractionAsClaimed(content) ==
  LET x == extract_function_signatures(content)
  IN /\ ~HasKind(content, "bad") /\ ~HasKind(content, "deep") =>
          x = Returned(TreeDefinitions(content))
     /\ HasKind(content, "bad") => x = Returned(HeaderScan(content))
     /\ ~IsRaised(x) /\ TreeDefinitions(content) = <<>> => x = Returned(<<>>)

\* C22: signature extraction returns exactly the function definitions of
\* the tree when the parse succeeds; when the parse fails with a syntax
\* error it returns exactly the result of the regex scan and raises
\* nothing; when neither finds a function it returns the empty list.
C22_ParseThenScan ==
  op = "detect_breaking_changes" => ExtractionAsClaimed(old) /\ ExtractionAsClaimed(new)

\* a parsed revision on which the scan would have missed a definition, and
\* an unparseable one on which only the scan's result is used
C22_Witness ==
  /\ Finished("detect_breaking_changes")
  /\ ~HasKind(old, "bad")
  /\ Len(HeaderScan(old)) < Len(TreeDefinitions(old))
  /\ HasKind(new, "bad")
  /\ Len(NewSigs) = 0 /\ Len(TreeDefinitions(new)) = 1

\* the place of a clause of the reason in the claimed order
ClauseRank(clause) ==
  CASE clause.c = "added_functions"   -> 1
    [] clause.c = "removed_functions" -> 2
    [] clause.c = "added_imports"     -> 3
    [] clause.c = "removed_imports"   -> 4
    [] clause.c = "added_classes"     -> 5
    [] clause.c = "removed_classes"   -> 6
    [] clause.c \in {"expanded", "reduced", "modified"} -> 7
    [] clause.c = "logic"             -> 8
    [] OTHER                          -> 0

RanksOf(reason) == [i \in 1..Len(reason) |-> ClauseRank(reason[i])]

\* C23: the clauses of the reason of a changed DiffResult come in the order
\* functions, imports, classes, control flow; the net-line-delta clause is
\* present exactly when no function, import or class clause is; the reason
\* is never empty and never the fallback text.
C23_ReasonOrder ==
  Finished("detect_changes") /\ result.val.changed =>
    LET ranks == RanksOf(result.val.reason)
    IN /\ \A i \in 1..Len(ranks) : ranks[i] \in 1..8
       /\ \A i \in 1..Len(ranks), j \in 1..Len(ranks) : i < j => ranks[i] < ranks[j]
       /\ (7 \in Range(ranks)) <=> (Range(ranks) \cap (1..6) = {})
       /\ ranks # <<>>

\* a reason with a function, an import or class clause and the control-flow
\* clause, and no net-line-delta clause
C23_Witness ==
  /\ Finished("detect_changes") /\ result.val.changed
  /\ Len(result.val.reason) = 3
  /\ RanksOf(result.val.reason)[1] = 1
  /\ RanksOf(result.val.reason)[3] = 8

\* the report of the breaking-change classifier on the two revisions
TheBreaking == CHOOSE b \in detect_breaking_changes(old, new, path) : TRUE

\* C24: when the classifier reports a breaking change, the impact of
\* analyze_impact starts with the breaking-changes note, affected_users
\* holds "Developers using this module/API", and the recommendations start
\* with the update-dependents and the version-bump recommendation in that
\* order; has_breaking_changes always equals the classifier's
\* breaking_change.
C24_BreakingFirst ==
  Finished("analyze_impact") =>
    /\ result.val.has_breaking_changes = TheBreaking.val.breaking_change
    /\ TheBreaking.val.breaking_change =>
         /\ result.val.impact[1] = Clause("breaking", 0, 0, <<>>)
         /\ "Developers using this module/API" \in Range(result.val.affected_users)
         /\ Len(result.val.recommendations) >= 2
         /\ result.val.recommendations[1] = "Update dependent code before deploying"
         /\ result.val.recommendations[2] = "Consider version bump if this is a library"

\* a breaking change that also changes the signature of an exported
\* function, so that another recommendation follows the two
C24_Witness ==
  /\ Finished("analyze_impact")
  /\ result.val.has_breaking_changes
  /\ Len(result.val.recommendations) >= 3
  /\ Len(result.val.impact) >= 2

DocstringsDiffer == CountKind(old, "doc") # CountKind(new, "doc")

TypeHintsDiffer == type_hints(old) # type_hints(new)

\* C25 as stated: analyze_impact adds an outdated_docs entry exactly when
\* the number of docstring blocks differs; a difference in the number of
\* return annotations alone adds the type-hint note and leaves outdated_docs
\* empty.
C25_DocsIffDocstrings ==
  Finished("analyze_impact") =>
    /\ (result.val.outdated_docs # <<>>) <=> DocstringsDiffer
    /\ TypeHintsDiffer /\ ~DocstringsDiffer =>
         /\ Clause("type_hints", 0, 0, <<>>) \in Range(result.val.impact)
         /\ result.val.outdated_docs = <<>>

\* C25, amended: analyze_impact adds the outdated_docs entry for the file
\* exactly when the number of docstring blocks or the number of return
\* annotations differs; each difference adds its own impact note.
C25_DocsIffApiNote ==
  Finished("analyze_impact") =>
    /\ result.val.outdated_docs
         = (IF DocstringsDiffer \/ TypeHintsDiffer THEN <<path>> ELSE <<>>)
    /\ (Clause("type_hints", 0, 0, <<>>) \in Range(result.val.impact)) <=> TypeHintsDiffer
    /\ (Clause("docstrings", 0, 0, <<>>) \in Range(result.val.impact)) <=> DocstringsDiffer

\* only the number of return annotations differs, and the documentation of
\* the file is reported as outdated
C25_Witness ==
  /\ Finished("analyze_impact")
  /\ TypeHintsDiffer /\ ~DocstringsDiffer
  /\ CountKind(old, "doc") = 1
  /\ result.val.outdated_docs = <<path>>

RemovalNote == "Significant code removal - verify functionality is preserved"

\* C26: the recommendations of analyze_impact contain the "Significant code
\* removal" recommendation exactly when removed_lines > 2 * added_lines: it
\* is absent when the two are equal and present for every change with no
\* added and at least one removed line.
C26_SignificantRemoval ==
  Finished("analyze_impact") =>
    LET present == RemovalNote \in Range(result.val.recommendations)
    IN /\ present <=> TheDiff.removed_lines > 2 * TheDiff.added_lines
       /\ TheDiff.removed_lines = 2 * TheDiff.added_lines => ~present
       /\ TheDiff.added_lines = 0 /\ TheDiff.removed_lines >= 1 => present

\* two lines removed for one added: the boundary, without the recommendation
C26_Witness ==
  /\ Finished("analyze_impact")
  /\ TheDiff.added_lines = 1 /\ TheDiff.removed_lines = 2
  /\ RemovalNote \notin Range(result.val.recommendations)

\* C28: in every record of analyze_code_changes a breaking change is a
\* change; an unchanged record has severity "none" and no changed file; and
\* files_changed is the list of the one path exactly when changed is true.
C28_BreakingIsChanged ==
  Finished("analyze_code_changes") =>
    LET r == result.val
    IN /\ r.breaking_change => r.changed
       /\ ~r.changed => r.severity = "none" /\ r.files_changed = <<>>
       /\ (r.files_changed = <<path>>) <=> r.changed
       /\ r.changed <=> old # new

\* a breaking record, and the file listed as changed
C28_Witness ==
  /\ Finished("analyze_code_changes")
  /\ result.val.breaking_change /\ result.val.changed
  /\ result.val.severity = "high"
  /\ result.val.files_changed = <<path>>

Planned == planner.plan # NoneValue

\* the query of the last planner call asks for neither a summary nor a
\* summarization
NoSummaryWord ==
  \A i \in 1..Len(planner.query) : planner.query[i] \notin {"summary", "Summarize"}

LimitedOrMissing ==
  \/ "context_quality" \notin DOMAIN planner.metadata
  \/ planner.metadata["context_quality"] = "limited"

\* C27: Planner.plan returns the strategy "uncertain" when context_quality
\* is "limited" or missing, and "summarize" for every other context_quality
\* whatever the query; the strategies explain_change, detect_breaking,
\* impact_analysis and direct are never returned.
C27_UncertainOrSummarize ==
  Planned =>
    /\ planner.plan.strategy = (IF LimitedOrMissing THEN "uncertain" ELSE "summarize")
    /\ planner.plan.strategy
         \notin {"explain_change", "detect_breaking", "impact_analysis", "direct"}

\* a query about a change, with no summary word, planned as a summary
C27_Witness ==
  /\ Planned
  /\ ~LimitedOrMissing
  /\ NoSummaryWord
  /\ \E i \in 1..Len(planner.query) : planner.query[i] = "Changed"
  /\ planner.plan.strategy = "summarize"

StoreOps ==
  {"store_question", "store_explanation", "store_design_decision", "store_change_context"}

CategoryOf(name) ==
  CASE name = "store_question"        -> "questions"
    [] name = "store_explanation"     -> "explanations"
    [] name = "store_design_decision" -> "design_decisions"
    [] name = "store_change_context"  -> "change_contexts"

\* C29: the i-th entry of every category of a MemoryStore (counting from 0)
\* has the id made of the category's prefix and i, so the ids of a category
\* are distinct; a store operation returns the id of the last entry of its
\* category; after clear_memory the four categories are empty, and the
\* numbering starts again at 0.
C29_IdsAreIndices ==
  /\ \A category \in Categories :
       LET entries == memory._memory[category]
       IN /\ \A i \in 1..Len(entries) : entries[i].id = FormatId(Prefix(category), i - 1)
          /\ \A i, j \in 1..Len(entries) : entries[i].id = entries[j].id => i = j
  /\ memory.last.op \in StoreOps /\ ~IsRaised(memory.last.returned) =>
       LET entries == memory._memory[CategoryOf(memory.last.op)]
       IN /\ entries # <<>>
          /\ memory.last.returned.val = entries[Len(entries)].id
  /\ memory.last.op = "clear_memory" => memory._memory = EmptyMemory

\* a second question stored next to an explanation: it is numbered 1 in
\* its own category
C29_Witness ==
  /\ memory.last = [op |-> "store_question", returned |-> Returned(FormatId("q", 1))]
  /\ Len(memory._memory["questions"]) = 2
  /\ Len(memory._memory["explanations"]) = 1
  /\ memory.file = json_dump(memory._memory)

\* C30: update(content) returns true exactly when the hash of content
\* differs from the hash the preceding update recorded (there is none
\* before the first update), and leaves the hash of content as the version
\* that get_version returns.
C30_UpdateReportsChange ==
  [][/\ tracker'.op = "update" =>
          /\ tracker'.changed = (content_hash(tracker'.content) # tracker.latest_hash)
          /\ tracker.latest_hash = NoneValue => tracker'.changed
          /\ tracker'.latest_hash = content_hash(tracker'.content)
     /\ tracker'.op = "get_version" =>
          /\ tracker'.version = tracker.latest_hash
          /\ tracker.op = "update" => tracker'.version = content_hash(tracker.content)]_vars

\* an update that reports no change, and the version read after it
C30_Witness ==
  /\ tracker.op = "get_version"
  /\ ~tracker.changed
  /\ tracker.content # <<>>
  /\ tracker.version = content_hash(tracker.content)

=============================================================================
